---- MODULE Spec2Model ----
(***************************************************************************)
(* Model of doc-filler (src/main.py): the process-wide SESSION store, the  *)
(* request handlers upload, start_chat, fill and download, and the         *)
(* placeholder extraction / run-level substitution functions they call.    *)
(*                                                                         *)
(* Text is a sequence of one-character strings.  A run is a record         *)
(* [text, style]; a paragraph is a sequence of runs; a cell is a sequence  *)
(* of paragraphs; a row a sequence of cells; a table a sequence of rows; a *)
(* document is [paragraphs, tables].  paragraph.text is the concatenation  *)
(* of the paragraph's run texts.                                           *)
(***************************************************************************)
EXTENDS Integers, Sequences, FiniteSets, TLC

VARIABLES SESSION, last, served, submitted, uploaded, call, ret

vars == <<SESSION, last, served, submitted, uploaded, call, ret>>

(***************************************************************************)
(* Bounds of the model.                                                    *)
(***************************************************************************)
\* form indexes range over -NegIndex .. MaxIndex
MaxIndex == 3
NegIndex == 2

(***************************************************************************)
(* Python str / list / dict primitives.                                    *)
(***************************************************************************)
Min(S) == CHOOSE x \in S : \A y \in S : x <= y

RECURSIVE join(_, _)
\* sep.join(parts)
join(sep, parts) ==
    IF parts = <<>> THEN <<>>
    ELSE IF Len(parts) = 1 THEN parts[1]
    ELSE parts[1] \o sep \o join(sep, Tail(parts))

\* the start offsets (0-based) at which old occurs in s
occurrences(s, old) ==
    {i \in 0..(Len(s) - Len(old)) : SubSeq(s, i + 1, i + Len(old)) = old}

\* old in s
str_in(old, s) == occurrences(s, old) # {}

\* s.find(old)
str_find(s, old) == IF occurrences(s, old) = {} THEN -1 ELSE Min(occurrences(s, old))

RECURSIVE str_replace(_, _, _)
\* s.replace(old, new), old non-empty: leftmost non-overlapping occurrences
str_replace(s, old, new) ==
    IF str_find(s, old) = -1 THEN s
    ELSE SubSeq(s, 1, str_find(s, old)) \o new
         \o str_replace(SubSeq(s, str_find(s, old) + Len(old) + 1, Len(s)), old, new)

RECURSIVE str_count(_, _)
\* s.count(old), old non-empty: number of non-overlapping occurrences
str_count(s, old) ==
    IF str_find(s, old) = -1 THEN 0
    ELSE 1 + str_count(SubSeq(s, str_find(s, old) + Len(old) + 1, Len(s)), old)

\* a dict is a sequence of [key, value] records in insertion order
dict_keys(d) == {d[i].key : i \in DOMAIN d}

dict_get(d, k) == d[CHOOSE i \in DOMAIN d : d[i].key = k].value

\* d[k] = v: an existing key keeps its position, a new key is appended
dict_set(d, k, v) ==
    IF k \in dict_keys(d)
    THEN [i \in DOMAIN d |-> IF d[i].key = k THEN [key |-> k, value |-> v] ELSE d[i]]
    ELSE Append(d, [key |-> k, value |-> v])

(***************************************************************************)
(* The document model (python-docx objects as the code uses them).         *)
(***************************************************************************)
Run(t, s) == [text |-> t, style |-> s]

run_texts(paragraph) == [i \in DOMAIN paragraph |-> paragraph[i].text]

\* paragraph.text
paragraph_text(paragraph) == join(<<>>, run_texts(paragraph))

\* cell.text
cell_text(cell) == join(<<"\n">>, [i \in DOMAIN cell |-> paragraph_text(cell[i])])

RECURSIVE flatten(_)
\* the concatenation of a sequence of sequences
flatten(ss) == IF ss = <<>> THEN <<>> ELSE ss[1] \o flatten(Tail(ss))

\* every cell of every row of every table, in document order
doc_cells(doc) == flatten(flatten(doc.tables))

\* extract_text_from_docx: the newline-joined paragraph and cell texts
extract_text_from_docx(doc) ==
    join(<<"\n">>,
         [i \in DOMAIN doc.paragraphs |-> paragraph_text(doc.paragraphs[i])]
         \o [i \in DOMAIN doc_cells(doc) |-> cell_text(doc_cells(doc)[i])])

(***************************************************************************)
(* extract_placeholders: re.findall of four patterns, united in a set.     *)
(***************************************************************************)
\* the characters [_.\s] of the second pattern
BlankChars == {"_", ".", " ", "\n"}

\* a variant whose match runs on to the last closing delimiter of the text
delim_match_end_greedy(text, i, open, close) ==
    IF i > Len(text) \/ text[i] # open THEN 0
    ELSE LET closes == {j \in (i + 2)..Len(text) : text[j] = close}
         IN  IF closes = {} THEN 0 ELSE CHOOSE j \in closes : \A k \in closes : k <= j

\* where a match of  open [^close]+ close  starting at i ends, 0 if none
delim_match_end(text, i, open, close) ==
    IF i > Len(text) \/ text[i] # open THEN 0
    ELSE LET closes == {j \in (i + 1)..Len(text) : text[j] = close}
         IN  IF closes = {} \/ Min(closes) < i + 2 THEN 0 ELSE Min(closes)

\* where a match of  \$?\[[_.\s]*\]  starting at i ends, 0 if none
blank_match_end(text, i) ==
    LET b == IF i <= Len(text) /\ text[i] = "$" THEN i + 1 ELSE i
    IN  IF b > Len(text) \/ text[b] # "[" THEN 0
        ELSE LET rest == {j \in (b + 1)..Len(text) : text[j] \notin BlankChars}
             IN  IF rest = {} \/ text[Min(rest)] # "]" THEN 0 ELSE Min(rest)

\* where the match of pattern number pat starting at i ends, 0 if none
match_end(pat, text, i) ==
    CASE pat = 1 -> delim_match_end(text, i, "[", "]")
      [] pat = 2 -> blank_match_end(text, i)
      [] pat = 3 -> delim_match_end(text, i, "{", "}")
      [] pat = 4 -> delim_match_end(text, i, "<", ">")

RECURSIVE findall_from(_, _, _)
\* re.findall(pat, text), scanning from position i: leftmost, non-overlapping
findall_from(pat, text, i) ==
    LET starts == {j \in i..Len(text) : match_end(pat, text, j) # 0}
    IN  IF starts = {} THEN {}
        ELSE {SubSeq(text, Min(starts), match_end(pat, text, Min(starts)))}
             \cup findall_from(pat, text, match_end(pat, text, Min(starts)) + 1)

findall(pat, text) == findall_from(pat, text, 1)

\* the set built by extract_placeholders; list(set) gives it in some order
extract_placeholders(text) == UNION {findall(pat, text) : pat \in 1..4}

\* the orders list(placeholders) can have: every arrangement of the set
Orders(S) ==
    {o \in [1..Cardinality(S) -> S] : \A i, j \in DOMAIN o : o[i] = o[j] => i = j}

(***************************************************************************)
(* identify_placeholders_with_llm: what the function returns, for each     *)
(* outcome of the external call.  "fail": generate_content or json.loads   *)
(* raised and the except branch builds the fallback list.  "list": the     *)
(* response parsed as a list of {placeholder, label, question} objects, in *)
(* the order the service chose.  "object": the response parsed as JSON     *)
(* that is a single object and is returned as it is.                       *)
(***************************************************************************)
Outcomes == {"fail", "list", "object"}

fallback_entry(ph) ==
    [placeholder |-> ph, label |-> ph,
     question |-> <<"What should I fill for ">> \o ph \o <<"?">>]

service_entry(ph) ==
    [placeholder |-> ph, label |-> <<"label of ">> \o ph,
     question |-> <<"Please enter ">> \o ph]

\* a variant whose except branch walks the tokens in another order than the
\* list it was given
identify_placeholders_with_llm_reordered(placeholders, outcome, reply_order) ==
    CASE outcome = "fail" ->
           [shape |-> "list",
            items |-> [i \in DOMAIN reply_order |-> fallback_entry(reply_order[i])]]
      [] outcome = "list" ->
           [shape |-> "list",
            items |-> [i \in DOMAIN reply_order |-> service_entry(reply_order[i])]]
      [] outcome = "object" ->
           [shape |-> "object", items |-> <<>>]

identify_placeholders_with_llm(placeholders, outcome, reply_order) ==
    CASE outcome = "fail" ->
           [shape |-> "list",
            items |-> [i \in DOMAIN placeholders |-> fallback_entry(placeholders[i])]]
      [] outcome = "list" ->
           [shape |-> "list",
            items |-> [i \in DOMAIN reply_order |-> service_entry(reply_order[i])]]
      [] outcome = "object" ->
           [shape |-> "object", items |-> <<>>]

\* len(details): the parsed object has one member
len(details) == IF details.shape = "list" THEN Len(details.items) ELSE 1

\* the indexes i for which details[i] does not raise IndexError
valid_index(details, i) == -Len(details.items) <= i /\ i < Len(details.items)

\* details[index], Python indexing: a negative index counts from the end
item(details, i) ==
    IF i >= 0 THEN details.items[i + 1] ELSE details.items[Len(details.items) + i + 1]

(***************************************************************************)
(* Substitution.                                                           *)
(***************************************************************************)
\* a variant that splices the answer in at start_pos..end_pos only, so that
\* later occurrences stay
replace_text_in_paragraph_first_only(paragraph, old_text, new_text) ==
    LET full_text == join(<<>>, run_texts(paragraph))
        start_pos == str_find(full_text, old_text)
        end_pos == start_pos + Len(old_text)
    IN  IF start_pos = -1 THEN paragraph
        ELSE [i \in DOMAIN paragraph |->
                 IF i = 1
                 THEN [paragraph[i] EXCEPT !.text =
                          SubSeq(full_text, 1, start_pos) \o new_text
                          \o SubSeq(full_text, end_pos + 1, Len(full_text))]
                 ELSE [paragraph[i] EXCEPT !.text = <<>>]]

\* a variant that does not clear the run texts before writing the first run
replace_text_in_paragraph_keeping_runs(paragraph, old_text, new_text) ==
    LET full_text == join(<<>>, run_texts(paragraph))
    IN  IF str_find(full_text, old_text) = -1 THEN paragraph
        ELSE [i \in DOMAIN paragraph |->
                 IF i = 1
                 THEN [paragraph[i] EXCEPT !.text = str_replace(full_text, old_text, new_text)]
                 ELSE paragraph[i]]

\* replace_text_in_paragraph: the runs of the paragraph after the call
replace_text_in_paragraph(paragraph, old_text, new_text) ==
    LET full_text == join(<<>>, run_texts(paragraph))
    IN  IF ~str_in(old_text, paragraph_text(paragraph)) THEN paragraph
        ELSE IF str_find(full_text, old_text) = -1 THEN paragraph
        ELSE [i \in DOMAIN paragraph |->
                 IF i = 1
                 THEN [paragraph[i] EXCEPT !.text = str_replace(full_text, old_text, new_text)]
                 ELSE [paragraph[i] EXCEPT !.text = <<>>]]

RECURSIVE replace_in_paragraph_unguarded(_, _)
\* a variant that rewrites the runs for every answer, without the
\* containment checks of lines 105 and 124
replace_in_paragraph_unguarded(paragraph, answers) ==
    IF answers = <<>> THEN paragraph
    ELSE replace_in_paragraph_unguarded(
             [i \in DOMAIN paragraph |->
                 IF i = 1
                 THEN [paragraph[i] EXCEPT !.text =
                          str_replace(paragraph_text(paragraph), answers[1].key,
                                      answers[1].value)]
                 ELSE [paragraph[i] EXCEPT !.text = <<>>]],
             Tail(answers))

RECURSIVE replace_in_paragraph(_, _)
\* the loop over answers.items() for one paragraph, in insertion order
replace_in_paragraph(paragraph, answers) ==
    IF answers = <<>> THEN paragraph
    ELSE replace_in_paragraph(
             IF str_in(answers[1].key, paragraph_text(paragraph))
             THEN replace_text_in_paragraph(paragraph, answers[1].key, answers[1].value)
             ELSE paragraph,
             Tail(answers))

\* replace_placeholders_in_document: the document after the in-place edits
replace_placeholders_in_document(doc, answers) ==
    [paragraphs |->
        [p \in DOMAIN doc.paragraphs |-> replace_in_paragraph(doc.paragraphs[p], answers)],
     tables |->
        [t \in DOMAIN doc.tables |->
          [r \in DOMAIN doc.tables[t] |->
            [c \in DOMAIN doc.tables[t][r] |->
              [p \in DOMAIN doc.tables[t][r][c] |->
                 replace_in_paragraph(doc.tables[t][r][c][p], answers)]]]]]

\* every paragraph of a document: the top-level ones, then those of the cells
all_paragraphs(doc) == doc.paragraphs \o flatten(doc_cells(doc))

(***************************************************************************)
(* The inputs the requests are drawn from.                                 *)
(***************************************************************************)
tName == <<"[", "N", "]">>
tAmount == <<"{", "a", "}">>
tSign == <<"<", "s", ">">>
tNested == <<"<", "[", "N", "]", ">">>

EmptyDoc == [paragraphs |-> <<>>, tables |-> <<>>]

\* "Hi [N]!" with the token split over two runs, the paragraph
\* "{a} [N] {a}", and a table of one row: a cell holding [N] and a cell holding "ok"
DocSplit ==
    [paragraphs |->
        << <<Run(<<"H", "i", " ">>, "bold"), Run(<<"[", "N">>, "plain"),
             Run(<<"]">>, "italic"), Run(<<"!">>, "plain")>>,
           <<Run(tAmount, "plain"), Run(<<" ">> \o tName \o <<" ">>, "plain"),
             Run(tAmount, "bold")>> >>,
     tables |->
        << << << << <<Run(tName, "plain")>> >>,
                    << <<Run(<<"o", "k">>, "plain")>> >> >> >> >>]

\* "<[N]>": the bracket token lies inside the angle-bracket token
DocNested ==
    [paragraphs |-> << <<Run(<<"<">>, "plain"), Run(tName, "bold"), Run(<<">">>, "plain")>> >>,
     tables |-> <<>>]

\* no placeholder at all
DocPlain ==
    [paragraphs |-> << <<Run(<<"o", "k">>, "plain")>>, <<>> >>, tables |-> <<>>]

\* three placeholders, one per paragraph
DocThree ==
    [paragraphs |->
        << <<Run(tName, "plain")>>, <<Run(tAmount, "plain"), Run(<<".">>, "plain")>>,
           <<Run(<<"b", "y", " ">>, "plain"), Run(tSign, "bold")>> >>,
     tables |-> <<>>]

\* an uploaded file: its name and, when python-docx can open it, its document
Files ==
    {[filename |-> "split.docx", valid |-> TRUE, doc |-> DocSplit],
     [filename |-> "nested.docx", valid |-> TRUE, doc |-> DocNested],
     [filename |-> "plain.docx", valid |-> TRUE, doc |-> DocPlain],
     [filename |-> "three.docx", valid |-> TRUE, doc |-> DocThree],
     [filename |-> "broken.docx", valid |-> FALSE, doc |-> EmptyDoc]}

\* the answers a user types (the form field is required, so never empty)
AnswerStrs == {<<"x">>, tName}

Indexes == (0 - NegIndex)..MaxIndex

(***************************************************************************)
(* State.  SESSION is the dict of line 20, a function from the keys set so *)
(* far to their values.  last is the latest request and its response.      *)
(* served, submitted and uploaded record history: the position the server  *)
(* last put in front of the user, the tokens written since the latest      *)
(* upload, and the document as it was parsed at the latest upload.         *)
(***************************************************************************)
NoQuestion == <<>>

\* a request (op, index, answer), the session position it arrived at (at) and
\* its response: kind, question, the index in the form, the total, the file
Response(op, index, answer, kind, question, next, total, doc) ==
    [op |-> op, index |-> index, answer |-> answer, at |-> served, kind |-> kind,
     question |-> question, next |-> next, total |-> total, doc |-> doc]

has(key) == key \in DOMAIN SESSION

\* call and ret hold the arguments and the result of a direct call of
\* replace_text_in_paragraph; the request handlers leave them alone
NoCall == [paragraph |-> <<>>, old_text |-> <<>>, new_text |-> <<>>]

NoReturn == [done |-> FALSE, paragraph |-> <<>>]

Init ==
    /\ SESSION = [k \in {} |-> {}]
    /\ served = [status |-> "NoSession", index |-> 0]
    /\ last = Response("none", 0, <<>>, "none", NoQuestion, 0, 0, EmptyDoc)
    /\ submitted = {}
    /\ uploaded = EmptyDoc
    /\ call = NoCall
    /\ ret = NoReturn

\* the session position a fresh placeholder list starts in
initial_state(details) ==
    IF details.shape # "list" THEN [status |-> "NoList", index |-> 0]
    ELSE IF Len(details.items) > 0 THEN [status |-> "AwaitingAnswer", index |-> 0]
    ELSE [status |-> "Complete", index |-> 0]

\* a variant that leaves an existing answers dict in place
stored_session_keeping_answers(text, doc, details, filename) ==
    [text |-> text, doc |-> doc, placeholders |-> details,
     answers |-> IF has("answers") THEN SESSION.answers ELSE <<>>,
     file_name |-> filename]

\* what upload stores in SESSION
stored_session(text, doc, details, filename) ==
    [text |-> text, doc |-> doc, placeholders |-> details,
     answers |-> <<>>, file_name |-> filename]

\* what lines 165-167 can compute for a file: the list(set) order and the
\* outcome of the external call are not determined by the file
labelings(file) ==
    LET tokens == extract_placeholders(extract_text_from_docx(file.doc))
    IN  {identify_placeholders_with_llm(placeholders, outcome, reply_order) :
            placeholders \in Orders(tokens), outcome \in Outcomes,
            reply_order \in Orders(tokens)}

\* every upload request with the labeling its run produces
UploadRuns ==
    UNION {{[file |-> file, details |-> details] : details \in labelings(file)} :
              file \in Files}

\* POST /upload
upload(file, details) ==
    IF ~file.valid
    THEN \* Document(file.file) raises: nothing is stored
         /\ last' = Response("upload", 0, <<>>, "unhandled", NoQuestion, 0, 0, EmptyDoc)
         /\ UNCHANGED <<SESSION, served, submitted, uploaded, call, ret>>
    ELSE /\ SESSION' = stored_session(extract_text_from_docx(file.doc), file.doc,
                                      details, file.filename)
         /\ last' = Response("upload", 0, <<>>, "analysis", NoQuestion, 0,
                             len(details), EmptyDoc)
         /\ served' = initial_state(details)
         /\ submitted' = {}
         /\ uploaded' = file.doc
         /\ UNCHANGED <<call, ret>>

\* a variant that starts the chat over with an empty answers dict
start_chat_clearing_answers ==
    IF ~has("placeholders")
    THEN /\ last' = Response("start", 0, <<>>, "redirect", NoQuestion, 0, 0, EmptyDoc)
         /\ UNCHANGED <<SESSION, served, submitted, uploaded, call, ret>>
    ELSE LET details == SESSION.placeholders
         IN  IF len(details) > 0 /\ details.shape # "list"
             THEN /\ last' = Response("start", 0, <<>>, "unhandled", NoQuestion, 0, 0, EmptyDoc)
                  /\ UNCHANGED <<SESSION, served, submitted, uploaded, call, ret>>
             ELSE /\ last' = Response("start", 0, <<>>, "chat",
                                      IF len(details) > 0 THEN item(details, 0).question
                                      ELSE <<"No placeholders found.">>,
                                      0, len(details), EmptyDoc)
                  /\ served' = IF len(details) > 0
                               THEN [status |-> "AwaitingAnswer", index |-> 0]
                               ELSE [status |-> "Complete", index |-> 0]
                  /\ SESSION' = [SESSION EXCEPT !.answers = <<>>]
                  /\ submitted' = {}
                  /\ UNCHANGED <<uploaded, call, ret>>

\* GET /chat
start_chat ==
    IF ~has("placeholders")
    THEN /\ last' = Response("start", 0, <<>>, "redirect", NoQuestion, 0, 0, EmptyDoc)
         /\ UNCHANGED <<SESSION, served, submitted, uploaded, call, ret>>
    ELSE LET details == SESSION.placeholders
         IN  IF len(details) > 0 /\ details.shape # "list"
             THEN \* details[0] raises KeyError
                  /\ last' = Response("start", 0, <<>>, "unhandled", NoQuestion, 0, 0, EmptyDoc)
                  /\ UNCHANGED <<SESSION, served, submitted, uploaded, call, ret>>
             ELSE /\ last' = Response("start", 0, <<>>, "chat",
                                      IF len(details) > 0 THEN item(details, 0).question
                                      ELSE <<"No placeholders found.">>,
                                      0, len(details), EmptyDoc)
                  /\ served' = IF len(details) > 0
                               THEN [status |-> "AwaitingAnswer", index |-> 0]
                               ELSE [status |-> "Complete", index |-> 0]
                  /\ UNCHANGED <<SESSION, submitted, uploaded, call, ret>>

\* a variant that stores a new dict holding the submitted answer alone
answers_after_fill_alone(answers, details, index, answer) ==
    <<[key |-> item(details, index).placeholder, value |-> answer]>>

\* the answers dict after line 217
answers_after_fill(answers, details, index, answer) ==
    dict_set(answers, item(details, index).placeholder, answer)

\* POST /fill
fill(answer, index) ==
    IF \/ ~has("placeholders")
       \/ SESSION.placeholders.shape # "list"
       \/ ~valid_index(SESSION.placeholders, index)
    THEN \* KeyError or IndexError at lines 216-217, before anything is written
         /\ last' = Response("fill", index, answer, "unhandled", NoQuestion, 0, 0, EmptyDoc)
         /\ UNCHANGED <<SESSION, served, submitted, uploaded, call, ret>>
    ELSE LET details == SESSION.placeholders
         IN  /\ SESSION' = [SESSION EXCEPT
                               !.answers = answers_after_fill(@, details, index, answer)]
             /\ submitted' = submitted \cup {item(details, index).placeholder}
             /\ IF index + 1 < len(details)
                THEN /\ last' = Response("fill", index, answer, "question",
                                         item(details, index + 1).question,
                                         index + 1, len(details), EmptyDoc)
                     /\ served' = [status |-> "AwaitingAnswer", index |-> index + 1]
                ELSE /\ last' = Response("fill", index, answer, "complete", NoQuestion,
                                         index + 1, len(SESSION.placeholders), EmptyDoc)
                     /\ served' = [status |-> "Complete", index |-> index + 1]
             /\ UNCHANGED <<uploaded, call, ret>>

\* a variant that rebuilds every top-level paragraph as one run holding
\* paragraph.text
reloaded_merging_runs(doc) ==
    [paragraphs |->
        [p \in DOMAIN doc.paragraphs |->
            IF doc.paragraphs[p] = <<>> THEN <<>>
            ELSE <<Run(paragraph_text(doc.paragraphs[p]), doc.paragraphs[p][1].style)>>],
     tables |-> doc.tables]

\* Document(temp_buffer) of a saved document: the same paragraphs, tables,
\* runs, texts and styles in a new object
reloaded(doc) ==
    LET copy(paragraph) == [i \in DOMAIN paragraph |->
                               Run(paragraph[i].text, paragraph[i].style)]
    IN  [paragraphs |-> [p \in DOMAIN doc.paragraphs |-> copy(doc.paragraphs[p])],
         tables |->
            [t \in DOMAIN doc.tables |->
              [r \in DOMAIN doc.tables[t] |->
                [c \in DOMAIN doc.tables[t][r] |->
                  [p \in DOMAIN doc.tables[t][r][c] |-> copy(doc.tables[t][r][c][p])]]]]]

\* a variant in which the substitution runs on the stored document itself
stored_doc_edited_in_place(original_doc, answers) ==
    replace_placeholders_in_document(original_doc, answers)

\* the document SESSION["doc"] refers to once download has run: the edits
\* went to the reloaded copy
stored_doc_after_download(original_doc, answers) == original_doc

\* the document download serializes
materialized(original_doc, answers) ==
    replace_placeholders_in_document(reloaded(original_doc), answers)

\* a variant without the checks of lines 326-342: SESSION["doc"] raises
\* KeyError outside any handler
download_raising ==
    IF ~has("text") \/ ~has("answers") \/ ~has("doc")
    THEN /\ last' = Response("download", 0, <<>>, "unhandled", NoQuestion, 0, 0, EmptyDoc)
         /\ UNCHANGED <<SESSION, served, submitted, uploaded, call, ret>>
    ELSE /\ last' = Response("download", 0, <<>>, "file", NoQuestion, 0, 0,
                             materialized(SESSION.doc, SESSION.answers))
         /\ SESSION' = [SESSION EXCEPT
                           !.doc = stored_doc_after_download(@, SESSION.answers)]
         /\ UNCHANGED <<served, submitted, uploaded, call, ret>>

\* GET /download
download ==
    IF ~has("text") \/ ~has("answers") \/ ~has("doc")
    THEN /\ last' = Response("download", 0, <<>>, "error400", NoQuestion, 0, 0, EmptyDoc)
         /\ UNCHANGED <<SESSION, served, submitted, uploaded, call, ret>>
    ELSE /\ last' = Response("download", 0, <<>>, "file", NoQuestion, 0, 0,
                             materialized(SESSION.doc, SESSION.answers))
         /\ SESSION' = [SESSION EXCEPT
                           !.doc = stored_doc_after_download(@, SESSION.answers)]
         /\ UNCHANGED <<served, submitted, uploaded, call, ret>>

Next ==
    \/ \E run \in UploadRuns : upload(run.file, run.details)
    \/ start_chat
    \/ \E answer \in AnswerStrs, index \in Indexes : fill(answer, index)
    \/ download

Spec == Init /\ [][Next]_vars

(***************************************************************************)
(* The fill session of the specification, read off the store: N is the     *)
(* length of the stored placeholder list, and the session is in            *)
(* AwaitingAnswer(c) when c is the index the server last put in the form.  *)
(***************************************************************************)
N == IF has("placeholders") THEN Len(SESSION.placeholders.items) ELSE 0

\* AwaitingAnswer(c) exists for 0 <= c < N only; a negative submitted index
\* makes line 275 put a negative index in the form, which is no such state
Awaiting == served.status = "AwaitingAnswer" /\ 0 <= served.index /\ served.index < N

Accepted(response) == response.kind \in {"question", "complete"}

\* a step of fill: the request it served is the one recorded in last'
FillStep == last'.op = "fill" /\ fill(last'.answer, last'.index)

\* C1: in AwaitingAnswer(c), a submit whose index is not c is rejected and
\* leaves the answers, the current index and the status as they were.
C1_StaleIndexRejected ==
    [][(Awaiting /\ last'.index # served.index /\ FillStep)
          => (~Accepted(last') /\ SESSION' = SESSION /\ served' = served)]_vars

\* C2: once the session is Complete, every further submit is rejected and
\* changes no answer.
C2_CompleteRejectsSubmit ==
    [][(served.status = "Complete" /\ FillStep)
          => (~Accepted(last') /\ SESSION'.answers = SESSION.answers)]_vars

\* C3: under submit calls the current index never decreases within a
\* session, never exceeds N, and the session is Complete exactly when the
\* index has reached N.
C3_IndexMonotonic ==
    [][(served.status \in {"AwaitingAnswer", "Complete"} /\ FillStep)
          => /\ served'.index >= served.index
             /\ served'.index <= N'
             /\ (served'.status = "Complete") <=> (served'.index = N')]_vars

\* the tokens of the stored placeholder list
ListTokens == {SESSION.placeholders.items[i].placeholder : i \in 1..N}

\* the run texts of every paragraph of a document, in document order
doc_texts(doc) == [p \in DOMAIN all_paragraphs(doc) |-> run_texts(all_paragraphs(doc)[p])]

\* C4: whatever requests were made, every key of the answers map is the
\* token of an entry of the current placeholder list, and the keys are
\* exactly the tokens submitted since the latest upload.
C4_AnswerKeysKnown ==
    has("answers") =>
        /\ dict_keys(SESSION.answers) \subseteq ListTokens
        /\ dict_keys(SESSION.answers) = submitted

\* a submit carrying index 1 was accepted by a session that was still at
\* index 0, and one placeholder of the list is still unanswered
C4_Witness ==
    /\ last.op = "fill" /\ Accepted(last)
    /\ SESSION.file_name = "nested.docx"
    /\ last.at = [status |-> "AwaitingAnswer", index |-> 0] /\ last.index = 1
    /\ Len(SESSION.answers) = 1
    /\ ListTokens \ dict_keys(SESSION.answers) # {}

\* C5: the stored source document keeps the run texts it was parsed with,
\* whatever downloads and submits were made.
C5_SourceNeverMutated ==
    has("doc") => doc_texts(SESSION.doc) = doc_texts(uploaded)

\* a download has substituted an answer into its copy
C5_Witness ==
    /\ last.op = "download" /\ last.kind = "file"
    /\ SESSION.answers # <<>>
    /\ doc_texts(last.doc) # doc_texts(SESSION.doc)

\* C6: a submit of the current index i records the answer under the token
\* of placeholder i and changes no other entry; it then serves question
\* i + 1 of N, or signals completion when i + 1 = N.
C6_ValidSubmit ==
    [][(Awaiting /\ last'.index = served.index /\ FillStep)
          => LET items == SESSION.placeholders.items
                 index == last'.index
                 answer == last'.answer
                 token == items[index + 1].placeholder
             IN  /\ dict_keys(SESSION'.answers) = dict_keys(SESSION.answers) \cup {token}
                 /\ dict_get(SESSION'.answers, token) = answer
                 /\ \A k \in dict_keys(SESSION.answers) \ {token} :
                       dict_get(SESSION'.answers, k) = dict_get(SESSION.answers, k)
                 /\ IF index + 1 < Len(items)
                    THEN /\ served' = [status |-> "AwaitingAnswer", index |-> index + 1]
                         /\ last'.kind = "question"
                         /\ last'.question = items[index + 2].question
                         /\ last'.next = index + 1
                         /\ last'.total = Len(items)
                    ELSE /\ served'.status = "Complete"
                         /\ last'.kind = "complete"]_vars

\* the second of three placeholders was submitted at its turn, after the first
C6_Witness ==
    /\ last.op = "fill" /\ last.kind = "question"
    /\ last.at = [status |-> "AwaitingAnswer", index |-> 1] /\ last.index = 1
    /\ served = [status |-> "AwaitingAnswer", index |-> 2]
    /\ Len(SESSION.answers) = 2

\* C10: a download made while the answers map is empty returns a document
\* whose run texts are those of the source, paragraph by paragraph.
C10_EmptyAnswersIdentity ==
    (last.op = "download" /\ last.kind = "file" /\ SESSION.answers = <<>>)
        => doc_texts(last.doc) = doc_texts(SESSION.doc)

\* such a download of a document with split runs, a table and placeholders
C10_Witness ==
    /\ last.op = "download" /\ last.kind = "file" /\ SESSION.answers = <<>>
    /\ SESSION.file_name = "split.docx"
    /\ Len(doc_texts(last.doc)) = 4

(***************************************************************************)
(* Materialization, as seen in the state a download leaves: the source is  *)
(* SESSION.doc, the answer map SESSION.answers, the output last.doc.       *)
(***************************************************************************)
Downloaded == last.op = "download" /\ last.kind = "file"

Paragraphs == DOMAIN all_paragraphs(SESSION.doc)

\* the concatenated text of paragraph p of the source and of the output
SourceText(p) == paragraph_text(all_paragraphs(SESSION.doc)[p])

OutputText(p) == paragraph_text(all_paragraphs(last.doc)[p])

Keys == dict_keys(SESSION.answers)

chars(s) == {s[i] : i \in DOMAIN s}

\* no answer is empty or shares a character with a key of the answer map
CleanAnswers ==
    \A i \in DOMAIN SESSION.answers :
        /\ SESSION.answers[i].value # <<>>
        /\ \A k \in Keys : chars(SESSION.answers[i].value) \cap chars(k) = {}

\* some occurrence of k in text shares a position with an occurrence of u
overlapping(text, k, u) ==
    \E i \in occurrences(text, k), j \in occurrences(text, u) :
        i < j + Len(u) /\ j < i + Len(k)

\* no occurrence of k in text shares a position with another key's
apart(text, k) == \A u \in Keys \ {k} : ~overlapping(text, k, u)

RECURSIVE substituted(_, _)
\* text with each key of the answer map replaced, where it occurs, by its
\* answer and every other character kept: one pass from left to right
substituted(text, answers) ==
    LET hits == {i \in DOMAIN answers :
                    /\ Len(answers[i].key) <= Len(text)
                    /\ SubSeq(text, 1, Len(answers[i].key)) = answers[i].key}
    IN  IF text = <<>> THEN <<>>
        ELSE IF hits = {} THEN <<text[1]>> \o substituted(Tail(text), answers)
        ELSE answers[Min(hits)].value
             \o substituted(SubSeq(text, Len(answers[Min(hits)].key) + 1, Len(text)),
                            answers)

\* C7 as stated: for every paragraph whose text contains a key k, the
\* output text contains no occurrence of k and at least one occurrence of
\* its answer per original occurrence of k, whatever the answers are.
C7_AsStated ==
    Downloaded =>
        \A p \in Paragraphs : \A k \in Keys :
            str_in(k, SourceText(p)) =>
                /\ str_count(OutputText(p), k) = 0
                /\ str_count(OutputText(p), dict_get(SESSION.answers, k))
                      >= str_count(SourceText(p), k)

\* C7 amended: when no answer is empty or shares a character with a key,
\* the output text of a paragraph that contained key k contains no
\* occurrence of k, and, when no occurrence of k overlapped an occurrence
\* of another key, at least one occurrence of its answer per original
\* occurrence of k.
C7_CleanAnswersReplaced ==
    (Downloaded /\ CleanAnswers) =>
        \A p \in Paragraphs : \A k \in Keys :
            str_in(k, SourceText(p)) =>
                /\ str_count(OutputText(p), k) = 0
                /\ apart(SourceText(p), k) =>
                      str_count(OutputText(p), dict_get(SESSION.answers, k))
                         >= str_count(SourceText(p), k)

\* a paragraph holding one key twice and another key once was materialized
\* with both keys answered
C7_Witness ==
    /\ Downloaded /\ CleanAnswers
    /\ SESSION.file_name = "split.docx"
    /\ Keys = {tName, tAmount}
    /\ str_count(SourceText(2), tAmount) = 2
    /\ str_count(OutputText(2), tAmount) = 0
    /\ OutputText(2) = <<"x", " ", "x", " ", "x">>

\* C8 as stated: every occurrence of a token without an answer is still in
\* the output, and a paragraph that contains no answered token keeps all
\* its runs.
C8_AsStated ==
    Downloaded =>
        \A p \in Paragraphs :
            /\ \A u \in ListTokens \ Keys :
                  str_count(OutputText(p), u) >= str_count(SourceText(p), u)
            /\ (\A k \in Keys : ~str_in(k, SourceText(p)))
                  => all_paragraphs(last.doc)[p] = all_paragraphs(SESSION.doc)[p]

\* C8 amended: when no answer is empty or shares a character with a key,
\* every token without an answer whose occurrences overlap no occurrence
\* of an answered token is still in the output as often as in the source;
\* a paragraph that contains no answered token keeps all its runs (for any
\* answers); and a paragraph in which no two answered tokens overlap comes
\* out as its source text with the answered tokens replaced and every
\* other character kept.
C8_UnansweredUntouched ==
    Downloaded =>
        \A p \in Paragraphs :
            /\ CleanAnswers =>
                  \A u \in ListTokens \ Keys :
                      (\A k \in Keys : ~overlapping(SourceText(p), k, u))
                          => str_count(OutputText(p), u) >= str_count(SourceText(p), u)
            /\ (\A k \in Keys : ~str_in(k, SourceText(p)))
                  => all_paragraphs(last.doc)[p] = all_paragraphs(SESSION.doc)[p]
            /\ (CleanAnswers /\ \A k \in Keys : apart(SourceText(p), k))
                  => OutputText(p) = substituted(SourceText(p), SESSION.answers)

\* one of two tokens was answered: the paragraph holding both keeps the
\* unanswered one, and the table cell without any token keeps its run
C8_Witness ==
    /\ Downloaded /\ CleanAnswers
    /\ SESSION.file_name = "split.docx"
    /\ Keys = {tName}
    /\ OutputText(2) = tAmount \o <<" ", "x", " ">> \o tAmount
    /\ all_paragraphs(last.doc)[4] = all_paragraphs(SESSION.doc)[4]

(***************************************************************************)
(* The labeled list as the handlers meet it.                               *)
(***************************************************************************)
\* C13: whatever the external call returns, the stored placeholder list is
\* a list of entries (a response of another shape was replaced by the
\* fallback list), and start, called in a session, answers with a question
\* or the "no placeholders" message and never with an unhandled error.
C13_ShapeDeviationFallsBack ==
    has("placeholders") =>
        /\ SESSION.placeholders.shape = "list"
        /\ last.op = "start" => last.kind = "chat"

(***************************************************************************)
(* Requests that arrive while the store holds no session.                  *)
(***************************************************************************)
\* a step of download, and of start_chat
DownloadStep == last'.op = "download" /\ download

StartStep == last'.op = "start" /\ start_chat

\* C14: a download made while the store lacks the text, the answers or the
\* document is answered with an error response, not an unhandled failure,
\* and leaves the store as it was.
C14_DownloadWithoutSession ==
    [][((~has("text") \/ ~has("answers") \/ ~has("doc")) /\ DownloadStep)
          => (last'.kind = "error400" /\ SESSION' = SESSION)]_vars

\* a download was answered with the error response, the store still empty
C14_Witness ==
    /\ last.op = "download" /\ last.kind = "error400"
    /\ DOMAIN SESSION = {}
    /\ served.status = "NoSession"

\* C15: a submit made while the store holds no session is answered with a
\* rejection, not an unhandled failure, and leaves the store as it was: no
\* answers map and no placeholder list appear.
C15_SubmitWithoutSession ==
    [][(~has("placeholders") /\ FillStep)
          => (last'.kind # "unhandled" /\ SESSION' = SESSION)]_vars

(***************************************************************************)
(* The session an upload leaves.                                           *)
(***************************************************************************)
\* the tokens of each file that can be opened
FileTokens ==
    [name \in {file.filename : file \in {f \in Files : f.valid}} |->
        LET file == CHOOSE f \in Files : f.filename = name
        IN  extract_placeholders(extract_text_from_docx(file.doc))]

\* C16: an upload that is answered with the analysis leaves an empty
\* answers map and, as placeholder list, a list with one entry per token
\* of the new document; the session is then in AwaitingAnswer(0) when the
\* list is non-empty and Complete when it is empty, and a start made in a
\* session shows question 0 of N with index 0, or the "No placeholders
\* found." message with index 0 and total 0 when N = 0.
C16_UploadLeavesFreshSession ==
    [][/\ (last'.op = "upload" /\ last'.kind = "analysis") =>
             LET tokens == FileTokens[SESSION'.file_name]
                 details == SESSION'.placeholders
             IN  /\ SESSION'.answers = <<>>
                 /\ details.shape = "list"
                 /\ Len(details.items) = Cardinality(tokens)
                 /\ {details.items[i].placeholder : i \in DOMAIN details.items} = tokens
                 /\ served' = IF Len(details.items) > 0
                              THEN [status |-> "AwaitingAnswer", index |-> 0]
                              ELSE [status |-> "Complete", index |-> 0]
       /\ (has("placeholders") /\ StartStep) =>
             /\ last'.kind = "chat"
             /\ last'.next = 0
             /\ last'.total = N
             /\ last'.question = IF N > 0 THEN SESSION.placeholders.items[1].question
                                 ELSE <<"No placeholders found.">>]_vars

(***************************************************************************)
(* What start and download leave alone.                                    *)
(***************************************************************************)
\* the step leaves the session's answers, list, document and file name alone
StoreKept ==
    /\ DOMAIN SESSION' = DOMAIN SESSION
    /\ SESSION'.answers = SESSION.answers
    /\ SESSION'.placeholders = SESSION.placeholders
    /\ SESSION'.doc = SESSION.doc
    /\ SESSION'.file_name = SESSION.file_name

C19_CompleteMeansAllAnswered ==
    (last.op = "fill" /\ last.kind = "complete") =>
        ListTokens \subseteq dict_keys(SESSION.answers)

\* C20: a submit whose index is negative or at least N is answered with
\* neither a question nor the completion page and leaves the answers map
\* as it was.
C20_OutOfRangeNotWritten ==
    [][(has("placeholders") /\ (last'.index < 0 \/ last'.index >= N) /\ FillStep)
          => (~Accepted(last') /\ SESSION'.answers = SESSION.answers)]_vars

(***************************************************************************)
(* replace_text_in_paragraph called directly on a paragraph.               *)
(***************************************************************************)
tFullName == <<"[", "N", "a", "m", "e", "]">>

sAlice == <<"A", "l", "i", "c", "e">>

\* runs "Dear ", "[Na", "me]", ", hi"
ParagraphDear ==
    <<Run(<<"D", "e", "a", "r", " ">>, "plain"), Run(<<"[", "N", "a">>, "bold"),
      Run(<<"m", "e", "]">>, "italic"), Run(<<",", " ", "h", "i">>, "plain")>>

\* runs "[N", "][", "N]": two occurrences, each split over two runs
ParagraphTwice ==
    <<Run(<<"[", "N">>, "plain"), Run(<<"]", "[">>, "bold"), Run(<<"N", "]">>, "plain")>>

ParagraphInputs ==
    {ParagraphDear, ParagraphTwice, <<>>}
        \cup {DocSplit.paragraphs[p] : p \in DOMAIN DocSplit.paragraphs}
        \cup {DocNested.paragraphs[p] : p \in DOMAIN DocNested.paragraphs}
        \cup {DocThree.paragraphs[p] : p \in DOMAIN DocThree.paragraphs}

TokenInputs == {tName, tAmount, tNested, tFullName}

TextInputs == {<<"x">>, sAlice, tName, <<>>}

InitReplace ==
    /\ SESSION = [k \in {} |-> {}]
    /\ served = [status |-> "NoSession", index |-> 0]
    /\ last = Response("none", 0, <<>>, "none", NoQuestion, 0, 0, EmptyDoc)
    /\ submitted = {}
    /\ uploaded = EmptyDoc
    /\ call \in [paragraph : ParagraphInputs, old_text : TokenInputs, new_text : TextInputs]
    /\ ret = NoReturn

ReplaceCall ==
    /\ ~ret.done
    /\ ret' = [done |-> TRUE,
               paragraph |-> replace_text_in_paragraph(call.paragraph, call.old_text,
                                                       call.new_text)]
    /\ UNCHANGED <<SESSION, last, served, submitted, uploaded, call>>

NextReplace == ReplaceCall

SpecReplace == InitReplace /\ [][NextReplace]_vars

\* C9: when the concatenated run text contains the token, the call leaves
\* the number of runs unchanged, the first run holding the concatenated
\* text with every occurrence of the token replaced by the answer, and
\* every other run empty.
C9_FirstRunHoldsAll ==
    (ret.done /\ str_in(call.old_text, paragraph_text(call.paragraph))) =>
        /\ Len(ret.paragraph) = Len(call.paragraph)
        /\ ret.paragraph[1].text =
              substituted(paragraph_text(call.paragraph),
                          <<[key |-> call.old_text, value |-> call.new_text]>>)
        /\ \A i \in 2..Len(ret.paragraph) : ret.paragraph[i].text = <<>>

\* runs "Dear ", "[Na", "me]", ", hi" with [Name] -> Alice have become
\* "Dear Alice, hi", "", "", ""
C9_Witness ==
    /\ ret.done
    /\ call = [paragraph |-> ParagraphDear, old_text |-> tFullName, new_text |-> sAlice]
    /\ run_texts(ret.paragraph) =
          << <<"D", "e", "a", "r", " ">> \o sAlice \o <<",", " ", "h", "i">>,
             <<>>, <<>>, <<>> >>

(***************************************************************************)
(* The analysis of a text called directly: extract_placeholders, then      *)
(* identify_placeholders_with_llm on the list it returned.  call holds the *)
(* text; ret holds the stage reached, the token list, the snippets put in  *)
(* the prompt, the outcome of the external call and the list returned.     *)
(***************************************************************************)
MaxTextLen == 4

TextChars == {"[", "]", "$", "_", "N", "{", "}", "<", ">"}

\* every text of at most MaxTextLen characters
ShortTexts == UNION {[1..n -> TextChars] : n \in 0..MaxTextLen}

\* "Dear [Name], your balance is {amount}."
tDear ==
    <<"D", "e", "a", "r", " ", "[", "N", "a", "m", "e", "]", ",", " ", "y",
      "o", "u", "r", " ", "b", "a", "l", "a", "n", "c", "e", " ", "i", "s",
      " ", "{", "a", "m", "o", "u", "n", "t", "}", ".">>

tBraceAmount == <<"{", "a", "m", "o", "u", "n", "t", "}">>

pad(n) == [i \in 1..n |-> "a"]

Pads == {0, 40, 120}

\* [N] twice and {a} once, with 0, 40 or 120 other characters before,
\* between and after the two [N]
LongTexts ==
    {pad(a) \o tName \o pad(b) \o tName \o pad(c) \o tAmount : a, b, c \in Pads}

AnalyzedTexts == ShortTexts \cup LongTexts \cup {tDear}

RECURSIVE finditer(_, _)
\* the start offsets of the matches of re.finditer(re.escape(ph), text),
\* in order: leftmost, non-overlapping
finditer(text, ph) ==
    IF str_find(text, ph) = -1 THEN <<>>
    ELSE LET s == str_find(text, ph)
             rest == finditer(SubSeq(text, s + Len(ph) + 1, Len(text)), ph)
         IN  <<s>> \o [k \in DOMAIN rest |-> rest[k] + s + Len(ph)]

\* the characters on each side of a match that go into its snippet
WINDOW == 100

Max2(a, b) == IF a >= b THEN a ELSE b

Min2(a, b) == IF a <= b THEN a ELSE b

\* text[start:end] for 0 <= start <= end <= len(text)
slice(text, start, end) == SubSeq(text, start + 1, end)

\* the text window around the match of ph that starts at offset s
window(text, ph, s) ==
    slice(text, Max2(0, s - WINDOW), Min2(Len(text), s + Len(ph) + WINDOW))

RECURSIVE snippets_of_matches(_, _, _, _)
\* the inner loop: snippets[ph] is assigned once per match, in match order
snippets_of_matches(snippets, text, ph, starts) ==
    IF starts = <<>> THEN snippets
    ELSE snippets_of_matches(dict_set(snippets, ph, window(text, ph, starts[1])),
                             text, ph, Tail(starts))

RECURSIVE snippets_from(_, _, _)
\* the outer loop over the placeholders, starting from the dict snippets
snippets_from(snippets, text, placeholders) ==
    IF placeholders = <<>> THEN snippets
    ELSE snippets_from(snippets_of_matches(snippets, text, placeholders[1],
                                           finditer(text, placeholders[1])),
                       text, Tail(placeholders))

\* the dict snippets that goes into the prompt
snippets(text, placeholders) == snippets_from(<<>>, text, placeholders)

NoDetails == [shape |-> "list", items |-> <<>>]

InitAnalyze ==
    /\ SESSION = [k \in {} |-> {}]
    /\ served = [status |-> "NoSession", index |-> 0]
    /\ last = Response("none", 0, <<>>, "none", NoQuestion, 0, 0, EmptyDoc)
    /\ submitted = {}
    /\ uploaded = EmptyDoc
    /\ call \in [text : AnalyzedTexts]
    /\ ret = [stage |-> "text", placeholders |-> <<>>, snippets |-> <<>>,
              outcome |-> "none", details |-> NoDetails]

\* placeholders = extract_placeholders(text)
ExtractCall ==
    /\ ret.stage = "text"
    /\ \E placeholders \in Orders(extract_placeholders(call.text)) :
          ret' = [ret EXCEPT !.stage = "extracted", !.placeholders = placeholders]
    /\ UNCHANGED <<SESSION, last, served, submitted, uploaded, call>>

\* details = identify_placeholders_with_llm(text, placeholders)
IdentifyCall ==
    /\ ret.stage = "extracted"
    /\ \E outcome \in Outcomes, reply_order \in Orders(extract_placeholders(call.text)) :
          ret' = [ret EXCEPT
                     !.stage = "labeled",
                     !.snippets = snippets(call.text, ret.placeholders),
                     !.outcome = outcome,
                     !.details = identify_placeholders_with_llm(ret.placeholders, outcome,
                                                                reply_order)]
    /\ UNCHANGED <<SESSION, last, served, submitted, uploaded, call>>

NextAnalyze == ExtractCall \/ IdentifyCall

SpecAnalyze == InitAnalyze /\ [][NextAnalyze]_vars

\* the four token shapes
delimited(t, open, close) ==
    /\ Len(t) >= 3
    /\ t[1] = open
    /\ t[Len(t)] = close
    /\ \A i \in 2..(Len(t) - 1) : t[i] # close

blank_bracket(t) ==
    LET b == IF t # <<>> /\ t[1] = "$" THEN Tail(t) ELSE t
    IN  /\ Len(b) >= 2
        /\ b[1] = "["
        /\ b[Len(b)] = "]"
        /\ \A i \in 2..(Len(b) - 1) : b[i] \in {"_", ".", " ", "\n"}

shaped(t) ==
    \/ delimited(t, "[", "]")
    \/ blank_bracket(t)
    \/ delimited(t, "{", "}")
    \/ delimited(t, "<", ">")

\* C11: the list the extractor returns holds no token twice, every token of
\* it is a substring of the text, delimiters included, of one of the four
\* shapes, and "Dear [Name], your balance is {amount}." yields exactly
\* [Name] and {amount}.
C11_TokensDistinctAndShaped ==
    ret.stage # "text" =>
        LET placeholders == ret.placeholders
        IN  /\ \A i, j \in DOMAIN placeholders :
                  placeholders[i] = placeholders[j] => i = j
            /\ \A i \in DOMAIN placeholders :
                  str_in(placeholders[i], call.text) /\ shaped(placeholders[i])
            /\ call.text = tDear =>
                  {placeholders[i] : i \in DOMAIN placeholders} = {tFullName, tBraceAmount}

\* the text "[_][" was analyzed: [_] is matched by the bracket rule and by
\* the blank-bracket rule, and is returned once
C11_Witness ==
    /\ ret.stage = "extracted"
    /\ call.text = <<"[", "_", "]", "[">>
    /\ ret.placeholders = << <<"[", "_", "]">> >>
    /\ findall(1, call.text) = findall(2, call.text)

\* C12: when the external call fails, the function returns a list with one
\* entry per token of the list it was given, in that order, each with the
\* token as label and "What should I fill for <token>?" as question; the
\* result is determined by the token list alone.
C12_FallbackInOrder ==
    (ret.stage = "labeled" /\ ret.outcome = "fail") =>
        /\ ret.details.shape = "list"
        /\ Len(ret.details.items) = Len(ret.placeholders)
        /\ \A i \in DOMAIN ret.placeholders :
              ret.details.items[i] =
                  [placeholder |-> ret.placeholders[i],
                   label |-> ret.placeholders[i],
                   question |-> <<"What should I fill for ">> \o ret.placeholders[i]
                                   \o <<"?">>]

\* the external call failed on the tokens [Name], {amount} of
\* "Dear [Name], your balance is {amount}."
C12_Witness ==
    /\ ret.stage = "labeled" /\ ret.outcome = "fail"
    /\ call.text = tDear
    /\ ret.placeholders = <<tFullName, tBraceAmount>>
    /\ ret.details.items[2].question =
          <<"What should I fill for ", "{", "a", "m", "o", "u", "n", "t", "}", "?">>

\* C17: the snippet of every token is the window of its first occurrence:
\* the text from WINDOW characters before the start of that occurrence
\* (not before the start of the text) to WINDOW characters after its end
\* (not after the end of the text), whatever later occurrences there are.
C17_SnippetOfFirstOccurrence ==
    ret.stage = "labeled" =>
        \A i \in DOMAIN ret.placeholders :
            LET ph == ret.placeholders[i]
                s == Min(occurrences(call.text, ph))
                e == s + Len(ph)
                from == IF s - WINDOW > 0 THEN s - WINDOW ELSE 0
                to == IF e + WINDOW < Len(call.text) THEN e + WINDOW ELSE Len(call.text)
            IN  dict_get(ret.snippets, ph) = SubSeq(call.text, from + 1, to)

====
